---- MODULE Spec2Model ----
(***************************************************************************)
(* Model of classify_model.py: SentenceClassifyModel.forward and the       *)
(* ModelTrainer training / validation / checkpoint / test loop, followed   *)
(* by the module top level (model_train(); model_test()).                  *)
(*                                                                         *)
(* Abstractions:                                                           *)
(*  - model parameters are a version number: 0 is the pretrained state and *)
(*    every optimizer.step() produces the next version;                    *)
(*  - the gradient buffer is the set of global batch numbers whose loss    *)
(*    has been backpropagated into it since it was last cleared;           *)
(*  - an accuracy is its numerator (number of correct examples) over a     *)
(*    fixed denominator, so comparisons of accuracies are comparisons of   *)
(*    numerators;                                                          *)
(*  - the learning rate is an integer in units of 1e-9;                    *)
(*  - running means are kept as the pair <<sum, divisor>>.                 *)
(***************************************************************************)
EXTENDS Integers, Sequences, FiniteSets, TLC

\* ---------------------------------------------------------------- bounds
MaxEpochs == 3
MaxSteps == 2
NumValidBatches == 2
NumTestBatches == 1
MaxLoss == 2
MaxBatchCorrect == 1

\* ------------------------------------------------------ program constants
\* lr=2e-5 of AdamW, in units of 1e-9
PeakLr == 20000

VARIABLES
    epochs,          \* self.epochs
    steps,           \* self.steps = len(self.train_loader)
    i,               \* loop variable of "for i in range(self.epochs)"
    pc,              \* position of the script
    mode,            \* "train" / "eval": self.model.training
    gradEnabled,     \* FALSE inside "with torch.no_grad()"
    params,          \* version of the in-memory model parameters
    grad,            \* gradient buffer: set of global batch numbers
    lr,              \* optimizer.param_groups[0]['lr']
    schedStep,       \* scheduler.last_epoch
    best_acc,        \* self.best_acc
    bestFile,        \* content of model/best_model.pth
    mostFile,        \* content of model/most_model.pth
    train_loss_sum,
    train_accuracy,
    batch_index,
    loss,            \* loss of the current batch
    batchCorrect,    \* model_evaluate(...) of the current batch
    acc,             \* result of the last model_valid
    validIdx, validCorrect,
    testIdx, testCorrect,
    fwdTrace,        \* sub-modules applied by the last forward(), in order
    fwdMode,         \* mode the last forward() ran in
    fwdGrad,         \* gradEnabled during the last forward()
    printed,         \* <<loss mean, accuracy mean>> last printed/logged
    \* history (ghost) variables
    bestWrites, mostWrites, accHistory, epochLosses, epochAccs,
    stepTrace, usedGrad, usedLr, phaseTrace

vars == <<epochs, steps, i, pc, mode, gradEnabled, params, grad, lr, schedStep,
          best_acc, bestFile, mostFile, train_loss_sum, train_accuracy,
          batch_index, loss, batchCorrect, acc, validIdx, validCorrect,
          testIdx, testCorrect, fwdTrace, fwdMode, fwdGrad, printed,
          bestWrites, mostWrites, accHistory, epochLosses, epochAccs,
          stepTrace, usedGrad, usedLr, phaseTrace>>

\* ------------------------------------------------------------- helpers
Max(a, b) == IF a >= b THEN a ELSE b

RECURSIVE SumSeq(_)
SumSeq(s) == IF s = <<>> THEN 0 ELSE s[1] + SumSeq(Tail(s))

\* checkpoint files
MissingFile == [kind |-> "missing", params |-> 0]
StaleFile == [kind |-> "stale", params |-> 0 - 1]
Checkpoint(p) == [kind |-> "ckpt", params |-> p]

\* ------------------------------------------- SentenceClassifyModel.forward
\* outputs = self.bert(...); out_pool = outputs[1]; logit = self.classifier(out_pool)
Forward == <<"bert", "pooled", "classifier">>

\* ------------------------------------------------ learning-rate schedule
NumWarmupStepsZero(s) == 0
\* num_warmup_steps=self.steps
NumWarmupSteps(s) == s

\* num_training_steps=(self.epochs) * (self.steps)
NumTrainingSteps(e, s) == e * s

\* cos(pi * a / b) for 0 <= a <= b, b > 0, as the fraction <<num, den>>, by
\* Bhaskara's rational approximation (exact at a/b = 0, 1/3, 1/2, 2/3, 1).
CosPi(a, b) ==
    IF 2 * a <= b
    THEN <<b * b - 4 * a * a, b * b + a * a>>
    ELSE <<0 - (b * b - 4 * (b - a) * (b - a)), b * b + (b - a) * (b - a)>>

\* lr_lambda of get_cosine_schedule_with_warmup (num_cycles = 0.5), as a
\* fraction <<num, den>>
LrLambda(cur, warm, total) ==
    IF cur < warm
    THEN <<cur, Max(1, warm)>>
    ELSE LET a == cur - warm
             b == Max(1, total - warm)
             c == CosPi(a, b)
         IN  <<Max(0, c[2] + c[1]), 2 * c[2]>>

\* LambdaLR: lr = base_lr * lr_lambda(last_epoch)
LrAt(cur, e, s) ==
    LET f == LrLambda(cur, NumWarmupSteps(s), NumTrainingSteps(e, s))
    IN  (PeakLr * f[1]) \div f[2]

\* --------------------------------------------------- small code fragments
LoopContinuesOffByOne(k, e) == k <= e
\* for i in range(self.epochs)
LoopContinues(k, e) == k < e

ZeroGradKeep(g) == g
\* optimizer.zero_grad()
ZeroGrad(g) == {}

\* loss.backward(): gradients accumulate into the buffer
Backward(g, b) == g \cup {b}

ImprovedOrEqual(a, best) == a >= best
\* if acc > self.best_acc
Improved(a, best) == a > best

SaveMostIfImproved(a, best) == a > best
\* torch.save(self.model.state_dict(), self.most_model_path): unconditional
SaveMost(a, best) == TRUE

TrainModeKeep(m) == m
\* self.model.train()
TrainMode(m) == "train"

ResetSumKeep(old) == old
\* train_loss_sum = 0.0 ; train_accuracy = 0.0
ResetSum(old) == 0

TestLoadMost(b, m) == m
\* torch.load(self.best_model_path)
TestLoadFile(b, m) == b

\* global number of the batch being processed, 1-based
GlobalBatch == i * steps + batch_index

\* --------------------------------------------------------------- Init
Init ==
    /\ epochs \in 0..MaxEpochs
    /\ steps \in 1..MaxSteps
    /\ i = 0
    /\ pc = "epoch_loop"
    /\ mode = "train"
    /\ gradEnabled = TRUE
    /\ params = 0
    /\ grad = {}
    /\ lr = LrAt(0, epochs, steps)
    /\ schedStep = 0
    /\ best_acc = 0
    /\ bestFile \in {MissingFile, StaleFile}
    /\ mostFile \in {MissingFile, StaleFile}
    /\ train_loss_sum = 0
    /\ train_accuracy = 0
    /\ batch_index = 0
    /\ loss = 0
    /\ batchCorrect = 0
    /\ acc = 0
    /\ validIdx = 0 /\ validCorrect = 0
    /\ testIdx = 0 /\ testCorrect = 0
    /\ fwdTrace = <<>>
    /\ fwdMode = "none"
    /\ fwdGrad = TRUE
    /\ printed = <<<<0, 0>>, <<0, 0>>>>
    /\ bestWrites = 0 /\ mostWrites = 0
    /\ accHistory = <<>>
    /\ epochLosses = <<>> /\ epochAccs = <<>>
    /\ stepTrace = <<>>
    /\ usedGrad = {} /\ usedLr = 0
    /\ phaseTrace = <<>>

\* --------------------------------------------------------- model_train
\* for i in range(self.epochs): self.model.train(); reset of the running sums
EpochStart ==
    /\ pc = "epoch_loop"
    /\ LoopContinues(i, epochs)
    /\ mode' = TrainMode(mode)
    /\ train_loss_sum' = ResetSum(train_loss_sum)
    /\ train_accuracy' = ResetSum(train_accuracy)
    /\ batch_index' = 0
    /\ epochLosses' = <<>> /\ epochAccs' = <<>>
    /\ stepTrace' = <<>>
    /\ phaseTrace' = Append(phaseTrace, <<"Training", i + 1>>)
    /\ pc' = "batch_loop"
    /\ UNCHANGED <<epochs, steps, i, gradEnabled, params, grad, lr, schedStep,
                   best_acc, bestFile, mostFile, loss, batchCorrect, acc,
                   validIdx, validCorrect, testIdx, testCorrect, fwdTrace,
                   fwdMode, fwdGrad, printed, bestWrites, mostWrites,
                   accHistory, usedGrad, usedLr>>

\* the epoch loop is exhausted: model_train returns
TrainReturn ==
    /\ pc = "epoch_loop"
    /\ ~LoopContinues(i, epochs)
    /\ pc' = "test_load"
    /\ UNCHANGED <<epochs, steps, i, mode, gradEnabled, params, grad, lr,
                   schedStep, best_acc, bestFile, mostFile, train_loss_sum,
                   train_accuracy, batch_index, loss, batchCorrect, acc,
                   validIdx, validCorrect, testIdx, testCorrect, fwdTrace,
                   fwdMode, fwdGrad, printed, bestWrites, mostWrites,
                   accHistory, epochLosses, epochAccs, stepTrace, usedGrad,
                   usedLr, phaseTrace>>

\* for batch in self.train_loader: batch_index += 1
NextBatch ==
    /\ pc = "batch_loop"
    /\ batch_index < steps
    /\ batch_index' = batch_index + 1
    /\ stepTrace' = <<>>
    /\ pc' = "forward"
    /\ UNCHANGED <<epochs, steps, i, mode, gradEnabled, params, grad, lr,
                   schedStep, best_acc, bestFile, mostFile, train_loss_sum,
                   train_accuracy, loss, batchCorrect, acc, validIdx,
                   validCorrect, testIdx, testCorrect, fwdTrace, fwdMode,
                   fwdGrad, printed, bestWrites, mostWrites, accHistory,
                   epochLosses, epochAccs, usedGrad, usedLr, phaseTrace>>

\* pred_labels = self.model(input_ids=..., attention_mask=...)
TrainForward ==
    /\ pc = "forward"
    /\ fwdTrace' = Forward
    /\ fwdMode' = mode
    /\ fwdGrad' = gradEnabled
    /\ stepTrace' = Append(stepTrace, "forward")
    /\ pc' = "loss"
    /\ UNCHANGED <<epochs, steps, i, mode, gradEnabled, params, grad, lr,
                   schedStep, best_acc, bestFile, mostFile, train_loss_sum,
                   train_accuracy, batch_index, loss, batchCorrect, acc,
                   validIdx, validCorrect, testIdx, testCorrect, printed,
                   bestWrites, mostWrites, accHistory, epochLosses, epochAccs,
                   usedGrad, usedLr, phaseTrace>>

\* loss = nn.CrossEntropyLoss()(pred_labels, true_labels)
ComputeLoss ==
    /\ pc = "loss"
    /\ \E l \in 1..MaxLoss : loss' = l
    /\ stepTrace' = Append(stepTrace, "loss")
    /\ pc' = "zero_grad"
    /\ UNCHANGED <<epochs, steps, i, mode, gradEnabled, params, grad, lr,
                   schedStep, best_acc, bestFile, mostFile, train_loss_sum,
                   train_accuracy, batch_index, batchCorrect, acc, validIdx,
                   validCorrect, testIdx, testCorrect, fwdTrace, fwdMode,
                   fwdGrad, printed, bestWrites, mostWrites, accHistory,
                   epochLosses, epochAccs, usedGrad, usedLr, phaseTrace>>

\* optimizer.zero_grad()
OptZeroGrad ==
    /\ pc = "zero_grad"
    /\ grad' = ZeroGrad(grad)
    /\ stepTrace' = Append(stepTrace, "zero_grad")
    /\ pc' = "backward"
    /\ UNCHANGED <<epochs, steps, i, mode, gradEnabled, params, lr,
                   schedStep, best_acc, bestFile, mostFile, train_loss_sum,
                   train_accuracy, batch_index, loss, batchCorrect, acc,
                   validIdx, validCorrect, testIdx, testCorrect, fwdTrace,
                   fwdMode, fwdGrad, printed, bestWrites, mostWrites,
                   accHistory, epochLosses, epochAccs, usedGrad, usedLr,
                   phaseTrace>>

\* loss.backward()
LossBackward ==
    /\ pc = "backward"
    /\ grad' = Backward(grad, GlobalBatch)
    /\ stepTrace' = Append(stepTrace, "backward")
    /\ pc' = "opt_step"
    /\ UNCHANGED <<epochs, steps, i, mode, gradEnabled, params, lr,
                   schedStep, best_acc, bestFile, mostFile, train_loss_sum,
                   train_accuracy, batch_index, loss, batchCorrect, acc,
                   validIdx, validCorrect, testIdx, testCorrect, fwdTrace,
                   fwdMode, fwdGrad, printed, bestWrites, mostWrites,
                   accHistory, epochLosses, epochAccs, usedGrad, usedLr,
                   phaseTrace>>

\* optimizer.step()
OptStep ==
    /\ pc = "opt_step"
    /\ params' = params + 1
    /\ usedGrad' = grad
    /\ usedLr' = lr
    /\ stepTrace' = Append(stepTrace, "optimizer_step")
    /\ pc' = "sched_step"
    /\ UNCHANGED <<epochs, steps, i, mode, gradEnabled, grad, lr,
                   schedStep, best_acc, bestFile, mostFile, train_loss_sum,
                   train_accuracy, batch_index, loss, batchCorrect, acc,
                   validIdx, validCorrect, testIdx, testCorrect, fwdTrace,
                   fwdMode, fwdGrad, printed, bestWrites, mostWrites,
                   accHistory, epochLosses, epochAccs, phaseTrace>>

\* scheduler.step()
SchedStep ==
    /\ pc = "sched_step"
    /\ schedStep' = schedStep + 1
    /\ lr' = LrAt(schedStep + 1, epochs, steps)
    /\ stepTrace' = Append(stepTrace, "scheduler_step")
    /\ pc' = "metrics"
    /\ UNCHANGED <<epochs, steps, i, mode, gradEnabled, params, grad,
                   best_acc, bestFile, mostFile, train_loss_sum,
                   train_accuracy, batch_index, loss, batchCorrect, acc,
                   validIdx, validCorrect, testIdx, testCorrect, fwdTrace,
                   fwdMode, fwdGrad, printed, bestWrites, mostWrites,
                   accHistory, epochLosses, epochAccs, usedGrad, usedLr,
                   phaseTrace>>

\* train_loss_sum += loss.item(); train_accuracy += self.model_evaluate(...);
\* print / writer.add_scalar of the running means
Metrics ==
    /\ pc = "metrics"
    /\ \E c \in 0..MaxBatchCorrect :
          /\ batchCorrect' = c
          /\ train_accuracy' = train_accuracy + c
          /\ epochAccs' = Append(epochAccs, c)
    /\ train_loss_sum' = train_loss_sum + loss
    /\ epochLosses' = Append(epochLosses, loss)
    /\ printed' = <<<<train_loss_sum', batch_index>>,
                    <<train_accuracy', batch_index>>>>
    /\ pc' = "batch_loop"
    /\ UNCHANGED <<epochs, steps, i, mode, gradEnabled, params, grad, lr,
                   schedStep, best_acc, bestFile, mostFile, batch_index, loss,
                   acc, validIdx, validCorrect, testIdx, testCorrect,
                   fwdTrace, fwdMode, fwdGrad, bestWrites, mostWrites,
                   accHistory, stepTrace, usedGrad, usedLr, phaseTrace>>

\* ---------------------------------------------------------- model_valid
\* the train loader is exhausted; model_valid: self.model.eval(),
\* with torch.no_grad()
ValidStart ==
    /\ pc = "batch_loop"
    /\ batch_index >= steps
    /\ mode' = "eval"
    /\ gradEnabled' = FALSE
    /\ validIdx' = 0 /\ validCorrect' = 0
    /\ phaseTrace' = Append(phaseTrace, <<"Validating", i + 1>>)
    /\ pc' = "valid_loop"
    /\ UNCHANGED <<epochs, steps, i, params, grad, lr, schedStep, best_acc,
                   bestFile, mostFile, train_loss_sum, train_accuracy,
                   batch_index, loss, batchCorrect, acc, testIdx, testCorrect,
                   fwdTrace, fwdMode, fwdGrad, printed, bestWrites,
                   mostWrites, accHistory, epochLosses, epochAccs, stepTrace,
                   usedGrad, usedLr>>

\* one iteration of "for batch in tqdm(data_loader)": forward, extend lists
ValidBatch ==
    /\ pc = "valid_loop"
    /\ validIdx < NumValidBatches
    /\ fwdTrace' = Forward
    /\ fwdMode' = mode
    /\ fwdGrad' = gradEnabled
    /\ validIdx' = validIdx + 1
    /\ \E c \in 0..1 : validCorrect' = validCorrect + c
    /\ UNCHANGED <<epochs, steps, i, pc, mode, gradEnabled, params, grad, lr,
                   schedStep, best_acc, bestFile, mostFile, train_loss_sum,
                   train_accuracy, batch_index, loss, batchCorrect, acc,
                   testIdx, testCorrect, printed, bestWrites, mostWrites,
                   accHistory, epochLosses, epochAccs, stepTrace, usedGrad,
                   usedLr, phaseTrace>>

\* return accuracy_score(true_labels, pred_labels); acc = ...
ValidReturn ==
    /\ pc = "valid_loop"
    /\ validIdx >= NumValidBatches
    /\ gradEnabled' = TRUE
    /\ acc' = validCorrect
    /\ accHistory' = Append(accHistory, validCorrect)
    /\ pc' = "save_best"
    /\ UNCHANGED <<epochs, steps, i, mode, params, grad, lr, schedStep,
                   best_acc, bestFile, mostFile, train_loss_sum,
                   train_accuracy, batch_index, loss, batchCorrect, validIdx,
                   validCorrect, testIdx, testCorrect, fwdTrace, fwdMode,
                   fwdGrad, printed, bestWrites, mostWrites, epochLosses,
                   epochAccs, stepTrace, usedGrad, usedLr, phaseTrace>>

\* if acc > self.best_acc: self.best_acc = acc; torch.save(..., best_model_path)
SaveBestStep ==
    /\ pc = "save_best"
    /\ IF Improved(acc, best_acc)
       THEN /\ best_acc' = acc
            /\ bestFile' = Checkpoint(params)
            /\ bestWrites' = bestWrites + 1
       ELSE UNCHANGED <<best_acc, bestFile, bestWrites>>
    /\ pc' = "save_most"
    /\ UNCHANGED <<epochs, steps, i, mode, gradEnabled, params, grad, lr,
                   schedStep, mostFile, train_loss_sum, train_accuracy,
                   batch_index, loss, batchCorrect, acc, validIdx,
                   validCorrect, testIdx, testCorrect, fwdTrace, fwdMode,
                   fwdGrad, printed, mostWrites, accHistory, epochLosses,
                   epochAccs, stepTrace, usedGrad, usedLr, phaseTrace>>

\* torch.save(self.model.state_dict(), self.most_model_path); next epoch
SaveMostStep ==
    /\ pc = "save_most"
    /\ IF SaveMost(acc, best_acc)
       THEN /\ mostFile' = Checkpoint(params)
            /\ mostWrites' = mostWrites + 1
       ELSE UNCHANGED <<mostFile, mostWrites>>
    /\ i' = i + 1
    /\ pc' = "epoch_loop"
    /\ UNCHANGED <<epochs, steps, mode, gradEnabled, params, grad, lr,
                   schedStep, best_acc, bestFile, train_loss_sum,
                   train_accuracy, batch_index, loss, batchCorrect, acc,
                   validIdx, validCorrect, testIdx, testCorrect, fwdTrace,
                   fwdMode, fwdGrad, printed, bestWrites, accHistory,
                   epochLosses, epochAccs, stepTrace, usedGrad, usedLr,
                   phaseTrace>>

\* ----------------------------------------------------------- model_test
\* self.model.load_state_dict(torch.load(self.best_model_path));
\* self.model.eval(); with torch.no_grad()
TestLoad ==
    /\ pc = "test_load"
    /\ TestLoadFile(bestFile, mostFile).kind # "missing"
    /\ params' = TestLoadFile(bestFile, mostFile).params
    /\ mode' = "eval"
    /\ gradEnabled' = FALSE
    /\ testIdx' = 0 /\ testCorrect' = 0
    /\ phaseTrace' = Append(phaseTrace, <<"Testing", 0>>)
    /\ pc' = "test_loop"
    /\ UNCHANGED <<epochs, steps, i, grad, lr, schedStep, best_acc, bestFile,
                   mostFile, train_loss_sum, train_accuracy, batch_index,
                   loss, batchCorrect, acc, validIdx, validCorrect, fwdTrace,
                   fwdMode, fwdGrad, printed, bestWrites, mostWrites,
                   accHistory, epochLosses, epochAccs, stepTrace, usedGrad,
                   usedLr>>

\* torch.load of a file that does not exist raises; nothing catches it
TestLoadFails ==
    /\ pc = "test_load"
    /\ TestLoadFile(bestFile, mostFile).kind = "missing"
    /\ phaseTrace' = Append(phaseTrace, <<"Testing", 0>>)
    /\ pc' = "crashed"
    /\ UNCHANGED <<epochs, steps, i, mode, gradEnabled, params, grad, lr,
                   schedStep, best_acc, bestFile, mostFile, train_loss_sum,
                   train_accuracy, batch_index, loss, batchCorrect, acc,
                   validIdx, validCorrect, testIdx, testCorrect, fwdTrace,
                   fwdMode, fwdGrad, printed, bestWrites, mostWrites,
                   accHistory, epochLosses, epochAccs, stepTrace, usedGrad,
                   usedLr>>

\* one iteration of "for batch in tqdm(self.test_loader)"
TestBatch ==
    /\ pc = "test_loop"
    /\ testIdx < NumTestBatches
    /\ fwdTrace' = Forward
    /\ fwdMode' = mode
    /\ fwdGrad' = gradEnabled
    /\ testIdx' = testIdx + 1
    /\ \E c \in 0..1 : testCorrect' = testCorrect + c
    /\ UNCHANGED <<epochs, steps, i, pc, mode, gradEnabled, params, grad, lr,
                   schedStep, best_acc, bestFile, mostFile, train_loss_sum,
                   train_accuracy, batch_index, loss, batchCorrect, acc,
                   validIdx, validCorrect, printed, bestWrites, mostWrites,
                   accHistory, epochLosses, epochAccs, stepTrace, usedGrad,
                   usedLr, phaseTrace>>

\* print of the test accuracy and classification_report; the script ends
TestReport ==
    /\ pc = "test_loop"
    /\ testIdx >= NumTestBatches
    /\ gradEnabled' = TRUE
    /\ phaseTrace' = Append(phaseTrace, <<"Done", 0>>)
    /\ pc' = "done"
    /\ UNCHANGED <<epochs, steps, i, mode, params, grad, lr, schedStep,
                   best_acc, bestFile, mostFile, train_loss_sum,
                   train_accuracy, batch_index, loss, batchCorrect, acc,
                   validIdx, validCorrect, testIdx, testCorrect, fwdTrace,
                   fwdMode, fwdGrad, printed, bestWrites, mostWrites,
                   accHistory, epochLosses, epochAccs, stepTrace, usedGrad,
                   usedLr>>

Next ==
    \/ EpochStart
    \/ TrainReturn
    \/ NextBatch
    \/ TrainForward
    \/ ComputeLoss
    \/ OptZeroGrad
    \/ LossBackward
    \/ OptStep
    \/ SchedStep
    \/ Metrics
    \/ ValidStart
    \/ ValidBatch
    \/ ValidReturn
    \/ SaveBestStep
    \/ SaveMostStep
    \/ TestLoad
    \/ TestLoadFails
    \/ TestBatch
    \/ TestReport

Spec == Init /\ [][Next]_vars

\* one sequential thread of control: the script always takes its next step
FairSpec == Init /\ [][Next]_vars /\ WF_vars(Next)

\* ------------------------------------------------------------ properties
TrainStepPcs == {"forward", "loss", "zero_grad", "backward", "opt_step",
                 "sched_step", "metrics"}
TestPcs == {"test_loop", "done"}

IsPrefix(s, t) == Len(s) <= Len(t) /\ \A k \in 1..Len(s) : s[k] = t[k]

\* Training(1), Validating(1), ..., Training(e), Validating(e), Testing, Done
ExpectedPhases(e) ==
    [k \in 1..(2 * e + 2) |->
        IF k = 2 * e + 1 THEN <<"Testing", 0>>
        ELSE IF k = 2 * e + 2 THEN <<"Done", 0>>
        ELSE IF k % 2 = 1 THEN <<"Training", (k + 1) \div 2>>
        ELSE <<"Validating", k \div 2>>]

\* the earliest epoch whose validation accuracy is the maximum of the run
EarliestMaxEpoch(h) ==
    CHOOSE k \in 1..Len(h) :
        /\ \A j \in 1..Len(h) : h[j] <= h[k]
        /\ \A j \in 1..(k - 1) : h[j] < h[k]

\* C1: the best checkpoint is written at the end of an epoch if and only if
\* that epoch's validation accuracy is strictly greater than best_acc as it
\* stood before the epoch; best_acc then becomes that accuracy; no other step
\* touches the best checkpoint or best_acc, and best_acc never decreases.
C1_BestWrittenIffStrictlyBetter ==
    [][ /\ pc = "save_best" =>
            \/ /\ acc > best_acc
               /\ bestWrites' = bestWrites + 1
               /\ bestFile' = Checkpoint(params)
               /\ best_acc' = acc
            \/ /\ ~(acc > best_acc)
               /\ UNCHANGED <<bestWrites, bestFile, best_acc>>
        /\ pc # "save_best" => UNCHANGED <<bestWrites, bestFile, best_acc>>
        /\ best_acc' >= best_acc ]_vars

\* an epoch that equals the previous (non-zero) best left the checkpoint alone
C1_Witness ==
    /\ pc = "save_most"
    /\ Len(accHistory) >= 2
    /\ acc = best_acc /\ acc > 0
    /\ bestWrites = 1
    /\ bestFile.params < params

\* C2: the most-recent checkpoint is written exactly once per epoch, after
\* that epoch's validation pass and before the next epoch's first training
\* step, whether or not the accuracy improved; after epoch k it holds the
\* parameters as they were at the end of epoch k.
C2_MostWrittenOncePerEpoch ==
    /\ [](/\ pc \in (TrainStepPcs \cup {"batch_loop", "valid_loop", "save_best", "save_most"})
             => mostWrites = Len(phaseTrace) \div 2
                    - (IF pc \in {"valid_loop", "save_best", "save_most"} THEN 1 ELSE 0)
          /\ pc \in ({"epoch_loop", "test_load", "crashed"} \cup TestPcs)
             => mostWrites = Len(accHistory)
          /\ mostWrites >= 1 => mostFile = Checkpoint(mostWrites * steps))
    /\ [][ (mostWrites' # mostWrites \/ mostFile' # mostFile) =>
              /\ pc = "save_most"
              /\ mostWrites' = mostWrites + 1
              /\ Len(accHistory) = mostWrites + 1
              /\ params = (mostWrites + 1) * steps
              /\ mostFile' = Checkpoint(params) ]_vars

\* the second epoch regressed and the most-recent checkpoint was still written
C2_Witness ==
    /\ pc = "epoch_loop"
    /\ Len(accHistory) = 2
    /\ accHistory[2] < accHistory[1]
    /\ mostWrites = 2
    /\ mostFile = Checkpoint(2 * steps)

\* C3: when the best checkpoint was written at least once, the parameters
\* model_test evaluates are those the model had at the end of the earliest
\* epoch whose validation accuracy is the maximum of the run.
C3_TestUsesBestCheckpoint ==
    (pc \in TestPcs /\ bestWrites >= 1) =>
        params = EarliestMaxEpoch(accHistory) * steps

\* the last epoch regressed: the tested parameters are neither the most-recent
\* checkpoint nor what the last epoch left in memory
C3_Witness ==
    /\ pc = "done"
    /\ bestWrites >= 1
    /\ Len(accHistory) >= 2
    /\ accHistory[Len(accHistory)] < best_acc
    /\ params # mostFile.params
    /\ params # epochs * steps

\* C4: a training step runs forward, loss, gradient clearing, backward, one
\* optimizer step, one scheduler step, in this order; the gradients the
\* optimizer step consumes are those of the current batch's loss alone.
C4_StepOrderAndFreshGradients ==
    /\ pc = "sched_step" =>
          /\ usedGrad = {GlobalBatch}
          /\ stepTrace = <<"forward", "loss", "zero_grad", "backward",
                           "optimizer_step">>
    /\ pc = "metrics" =>
          /\ usedGrad = {GlobalBatch}
          /\ stepTrace = <<"forward", "loss", "zero_grad", "backward",
                           "optimizer_step", "scheduler_step">>

\* the first step of a later epoch: the previous batch is across the boundary
C4_Witness ==
    /\ pc = "metrics"
    /\ i >= 1
    /\ batch_index = 1
    /\ usedGrad = {i * steps + 1}

\* C5 as stated: for every epoch count >= 1 the first optimizer step of
\* epoch 1 runs at learning rate 0, the learning rate after the last step of
\* epoch 1 is the peak, and the learning rate after the final training step
\* of the run is 0.
C5_Original ==
    epochs >= 1 =>
        /\ (pc = "sched_step" /\ schedStep = 0) => usedLr = 0
        /\ (pc = "metrics" /\ i = 0 /\ batch_index = steps) => lr = PeakLr
        /\ (pc = "metrics" /\ i = epochs - 1 /\ batch_index = steps) => lr = 0

\* C5 amended: the first optimizer step of epoch 1 runs at learning rate 0 and
\* the learning rate after the last step of epoch 1 is the peak, for every
\* epoch count >= 1; the learning rate after the final training step of the
\* run is 0 when the epoch count is >= 2, and is the peak when it is 1.
C5_LearningRateEndpoints ==
    epochs >= 1 =>
        /\ (pc = "sched_step" /\ schedStep = 0) => usedLr = 0
        /\ (pc = "metrics" /\ i = 0 /\ batch_index = steps) => lr = PeakLr
        /\ (pc = "metrics" /\ i = epochs - 1 /\ batch_index = steps) =>
              lr = (IF epochs >= 2 THEN 0 ELSE PeakLr)

\* the final training step of a run of at least two epochs
C5_Witness ==
    /\ pc = "metrics"
    /\ epochs >= 2
    /\ i = epochs - 1
    /\ batch_index = steps
    /\ schedStep = epochs * steps
    /\ lr = 0

\* what section 4.1 describes: encoder, pooled output, dropout, classifier
ForwardPerSpec == <<"bert", "pooled", "dropout", "classifier">>

\* C6: forward applies the dropout layer to the pooled output and the
\* classifier to the dropout's result: in training mode the classifier's
\* input is the dropped-out pooled vector.
C6_DropoutBeforeClassifier ==
    fwdMode = "train" => fwdTrace = ForwardPerSpec

\* C7: the run visits Training(1), Validating(1), ..., Training(E),
\* Validating(E), Testing, Done in this order, each validation after all of
\* its epoch's training steps, the test pass only after the last epoch's
\* validation and checkpoint write, and it ends (Done, or the exception of
\* the checkpoint load).
C7_PhaseOrderAndTermination ==
    /\ [](/\ IsPrefix(phaseTrace, ExpectedPhases(epochs))
          /\ pc \in TrainStepPcs =>
                phaseTrace[Len(phaseTrace)] = <<"Training", i + 1>>
          /\ pc = "valid_loop" =>
                /\ phaseTrace[Len(phaseTrace)] = <<"Validating", i + 1>>
                /\ batch_index = steps
                /\ params = (i + 1) * steps
          /\ pc \in ({"test_load", "crashed"} \cup TestPcs) =>
                /\ Len(accHistory) = epochs
                /\ mostWrites = epochs
          /\ pc = "done" => phaseTrace = ExpectedPhases(epochs))
    /\ <>(pc \in {"done", "crashed"})

\* a complete run of at least two epochs
C7_Witness ==
    /\ pc = "done"
    /\ epochs >= 2
    /\ Len(phaseTrace) = 2 * epochs + 2

\* C8: every training forward pass runs in training mode, every forward pass
\* of model_valid and model_test runs in evaluation mode with gradient
\* computation disabled, and no validation or test pass changes the
\* parameters.
C8_ModeMatchesPhase ==
    /\ [](/\ pc = "loss" => (fwdMode = "train" /\ fwdGrad)
          /\ (pc = "valid_loop" /\ validIdx >= 1) => (fwdMode = "eval" /\ ~fwdGrad)
          /\ (pc = "test_loop" /\ testIdx >= 1) => (fwdMode = "eval" /\ ~fwdGrad))
    /\ [][(pc \in {"valid_loop", "test_loop"}) => (params' = params)]_vars

\* a training forward pass of an epoch that follows a validation pass
C8_Witness ==
    /\ pc = "loss"
    /\ i >= 1
    /\ fwdMode = "train"
    /\ Len(accHistory) >= 1

\* C9: the loss sum, accuracy sum and batch counter are zero at the start of
\* every epoch, and what is printed at step b is the sum of the losses (batch
\* accuracies) of batches 1..b of this epoch over b, with b never 0.
C9_PerEpochRunningMeans ==
    /\ (pc = "batch_loop" /\ batch_index = 0) =>
          (train_loss_sum = 0 /\ train_accuracy = 0)
    /\ (pc = "batch_loop" /\ batch_index >= 1) =>
          /\ Len(epochLosses) = batch_index
          /\ Len(epochAccs) = batch_index
          /\ printed = <<<<SumSeq(epochLosses), batch_index>>,
                         <<SumSeq(epochAccs), batch_index>>>>
          /\ printed[1][2] # 0 /\ printed[2][2] # 0

\* a step of a later epoch, after an epoch with non-zero sums
C9_Witness ==
    /\ pc = "batch_loop"
    /\ i >= 1
    /\ batch_index >= 1
    /\ printed[1] = <<SumSeq(epochLosses), batch_index>>

\* C10: for every epoch count >= 1, by the time model_test loads
\* best_model_path the best checkpoint has been written at least once during
\* this run.
C10_BestWrittenBeforeTest ==
    (epochs >= 1 /\ pc = "test_load") => bestWrites >= 1

====
